---- MODULE Spec2Model ----
(***************************************************************************)
(* Model of the Macro Tracker component (src/src/App.tsx): the food ledger *)
(* (foodItems), its import/export as JSON text, the running totals, the    *)
(* debounced suggestion lookup and the add-food lookup.                    *)
(*                                                                         *)
(* Numbers are fixed-point, in hundredths (105 calories is 10500, 0.04 g   *)
(* is 4).  A JSON text is the sequence of its lexical tokens; whitespace   *)
(* and indentation are not tokens.  A query text is a sequence of          *)
(* one-character strings, so that trim() is computed and not assumed.      *)
(***************************************************************************)
EXTENDS Integers, Sequences, FiniteSets, TLC

VARIABLES
    foodName,         \* useState('')      the query text
    foodItems,        \* useState([])      the ledger
    isLoading,        \* useState(false)   the in-flight flag
    error,            \* useState('')      the user-facing message
    suggestions,      \* useState([])      the suggestion list (names)
    showSuggestions,  \* useState(false)   the visibility flag
    timers,           \* pending debounce timers: [q, remaining]
    sugFlights,       \* suggestion lookups awaiting their response (queries)
    nutriFlights,     \* nutrition lookups awaiting their response
    file,             \* the last text written by exportDiet
    sinceChange,      \* history: time elapsed since the query text last changed
    issued,           \* history: suggestion lookups issued since that change
    burst,            \* history: changes so far in the current burst (up to 2)
    exported,         \* history: the ledger that exportDiet wrote to file
    last              \* history: the step just taken

vars == <<foodName, foodItems, isLoading, error, suggestions, showSuggestions,
          timers, sugFlights, nutriFlights, file, sinceChange, issued, burst,
          exported, last>>

---------------------------------------------------------------------------
(* Bounds of the model.                                                    *)

MaxLedger == 2
MaxSugFlights == 2
TickQuantum == 150

(* setTimeout(..., 300)                                                    *)
DebounceDelay == 300

(* "suggest 5 common food items" in the prompt of fetchSuggestions         *)
MaxSuggestions == 5

---------------------------------------------------------------------------
(* JavaScript values as JSON.parse builds them.  Every value is a node     *)
(* [kind, n, s, kids]; an object's kids are its members in insertion       *)
(* order, each a node of kind "pair" whose s is the key and whose single   *)
(* kid is the value.                                                       *)

Node(kind, n, s, kids) == [kind |-> kind, n |-> n, s |-> s, kids |-> kids]

Undefined == Node("undefined", 0, "", <<>>)
Null == Node("null", 0, "", <<>>)
Num(n) == Node("num", n, "", <<>>)
Infinity == Node("inf", 0, "", <<>>)
NaN == Node("nan", 0, "", <<>>)
Str(s) == Node("str", 0, s, <<>>)
Arr(elems) == Node("arr", 0, "", elems)
Pair(k, v) == Node("pair", 0, k, <<v>>)
Obj(members) == Node("obj", 0, "", members)

(* typeof v                                                                *)
TypeOf(v) ==
    CASE v.kind = "undefined" -> "undefined"
      [] v.kind \in {"num", "inf", "nan"} -> "number"
      [] v.kind = "str" -> "string"
      [] OTHER -> "object"

(* v[key] for v that is neither null nor undefined (those throw a          *)
(* TypeError, see Throws): an object's own member, undefined otherwise.    *)
Get(v, key) ==
    IF v.kind = "obj" /\ \E i \in 1..Len(v.kids) : v.kids[i].s = key
    THEN LET i == CHOOSE j \in 1..Len(v.kids) : v.kids[j].s = key
         IN v.kids[i].kids[1]
    ELSE Undefined

(* Reading a property of v throws a TypeError.                             *)
Throws(v) == v.kind \in {"null", "undefined"}

---------------------------------------------------------------------------
(* JSON text: tokens.  "num" is a number literal within the range of a     *)
(* double, "big" one beyond it (1e999), "bad" anything that is no JSON     *)
(* token.                                                                  *)

Tok(t, n, s) == [t |-> t, n |-> n, s |-> s]
P(t) == Tok(t, 0, "")
TNum(n) == Tok("num", n, "")
TStr(s) == Tok("str", 0, s)

ParseFail == [ok |-> FALSE, v |-> Undefined, next |-> 0]
ParseOk(v, next) == [ok |-> TRUE, v |-> v, next |-> next]

(* An object member set by key: a repeated key keeps its first position    *)
(* and takes the last value.                                               *)
SetMember(members, k, v) ==
    IF \E i \in 1..Len(members) : members[i].s = k
    THEN [i \in 1..Len(members) |->
            IF members[i].s = k THEN Pair(k, v) ELSE members[i]]
    ELSE Append(members, Pair(k, v))

RECURSIVE ParseValue(_, _)
RECURSIVE ParseArrayRest(_, _, _)
RECURSIVE ParseObjectRest(_, _, _)

(* The JSON value starting at token i.                                     *)
ParseValue(toks, i) ==
    IF i > Len(toks) THEN ParseFail
    ELSE LET k == toks[i] IN
      CASE k.t = "null" -> ParseOk(Null, i + 1)
        [] k.t = "num" -> ParseOk(Num(k.n), i + 1)
        [] k.t = "big" -> ParseOk(Infinity, i + 1)
        [] k.t = "str" -> ParseOk(Str(k.s), i + 1)
        [] k.t = "[" ->
             IF i + 1 <= Len(toks) /\ toks[i + 1].t = "]"
             THEN ParseOk(Arr(<<>>), i + 2)
             ELSE ParseArrayRest(toks, i + 1, <<>>)
        [] k.t = "{" ->
             IF i + 1 <= Len(toks) /\ toks[i + 1].t = "}"
             THEN ParseOk(Obj(<<>>), i + 2)
             ELSE ParseObjectRest(toks, i + 1, <<>>)
        [] OTHER -> ParseFail

(* The elements of an array from token i on, acc being those before.       *)
ParseArrayRest(toks, i, acc) ==
    LET r == ParseValue(toks, i) IN
    IF ~r.ok \/ r.next > Len(toks) THEN ParseFail
    ELSE IF toks[r.next].t = "]" THEN ParseOk(Arr(Append(acc, r.v)), r.next + 1)
    ELSE IF toks[r.next].t = "," THEN ParseArrayRest(toks, r.next + 1, Append(acc, r.v))
    ELSE ParseFail

(* The members of an object from token i on, acc being those before.       *)
ParseObjectRest(toks, i, acc) ==
    IF i + 1 > Len(toks) \/ toks[i].t # "str" \/ toks[i + 1].t # ":" THEN ParseFail
    ELSE LET r == ParseValue(toks, i + 2) IN
      IF ~r.ok \/ r.next > Len(toks) THEN ParseFail
      ELSE IF toks[r.next].t = "}"
           THEN ParseOk(Obj(SetMember(acc, toks[i].s, r.v)), r.next + 1)
      ELSE IF toks[r.next].t = ","
           THEN ParseObjectRest(toks, r.next + 1, SetMember(acc, toks[i].s, r.v))
      ELSE ParseFail

(* JSON.parse(text): ok is FALSE when it throws a SyntaxError.             *)
JSONparse(text) ==
    LET r == ParseValue(text, 1) IN
    IF r.ok /\ r.next = Len(text) + 1 THEN r ELSE ParseFail

RECURSIVE JSONstringify(_)
RECURSIVE StringifyList(_, _)

(* The texts of kids[i..], separated by commas.                            *)
StringifyList(kids, i) ==
    IF i > Len(kids) THEN <<>>
    ELSE JSONstringify(kids[i])
         \o (IF i < Len(kids) THEN <<P(",")>> ELSE <<>>)
         \o StringifyList(kids, i + 1)

(* JSON.stringify(v): a number that is not finite is written as null.      *)
JSONstringify(v) ==
    CASE v.kind = "num" -> <<TNum(v.n)>>
      [] v.kind \in {"inf", "nan", "null"} -> <<P("null")>>
      [] v.kind = "str" -> <<TStr(v.s)>>
      [] v.kind = "pair" -> <<TStr(v.s), P(":")>> \o JSONstringify(v.kids[1])
      [] v.kind = "arr" -> <<P("[")>> \o StringifyList(v.kids, 1) \o <<P("]")>>
      [] v.kind = "obj" -> <<P("{")>> \o StringifyList(v.kids, 1) \o <<P("}")>>
      [] OTHER -> <<>>

---------------------------------------------------------------------------
(* The FoodItem interface and the texts and payloads the model draws from. *)

Fields == <<"calories", "protein", "carbs", "fat", "weight">>

FoodItem(name, calories, protein, carbs, fat, weight) ==
    Obj(<<Pair("name", name), Pair("calories", calories),
          Pair("protein", protein), Pair("carbs", carbs), Pair("fat", fat),
          Pair("weight", weight)>>)

(* {name:"Banana",calories:105,protein:1.3,carbs:27,fat:0.4,weight:118}    *)
Banana == FoodItem(Str("Banana"), Num(10500), Num(130), Num(2700), Num(40), Num(11800))
(* {name:"Mint",calories:1,protein:0.04,carbs:0.04,fat:0.04,weight:0.5}    *)
Mint == FoodItem(Str("Mint"), Num(100), Num(4), Num(4), Num(4), Num(50))
(* {name:"",calories:1,protein:0,carbs:0,fat:0,weight:-1}                  *)
Void == FoodItem(Str(""), Num(100), Num(0), Num(0), Num(0), Num(-100))
(* {name:"Water",calories:0,protein:0,carbs:0,fat:0,weight:250}            *)
Water == FoodItem(Str("Water"), Num(0), Num(0), Num(0), Num(0), Num(25000))
(* {"name":"Egg","calories":"78"}                                          *)
EggText == <<P("{"), TStr("name"), P(":"), TStr("Egg"), P(","),
             TStr("calories"), P(":"), TStr("78"), P("}")>>
(* {"name":"Salt","calories":1e999,"protein":0,"carbs":0,"fat":0,"weight":1} *)
SaltText == <<P("{"), TStr("name"), P(":"), TStr("Salt"), P(","),
              TStr("calories"), P(":"), Tok("big", 0, ""), P(","),
              TStr("protein"), P(":"), TNum(0), P(","),
              TStr("carbs"), P(":"), TNum(0), P(","),
              TStr("fat"), P(":"), TNum(0), P(","),
              TStr("weight"), P(":"), TNum(100), P("}")>>
(* Here is the data: {"name"                                               *)
GarbageText == <<Tok("bad", 0, ""), P("{"), TStr("name")>>

ArrayText(elems) == <<P("[")>> \o elems \o <<P("]")>>

(* The query texts typed, and the names a suggestion response carries.     *)
Q_a == <<"a">>
Q_ap == <<"a", "p">>
Queries == {<<>>, <<" ">>, Q_a, Q_ap}
(* A response that carries more names than the prompt asks for.            *)
LongPayload == <<Q_a, Q_ap, Q_a, Q_ap, Q_a, Q_ap>>
SuggestPayloads == {<<>>, <<Q_a, Q_ap>>, LongPayload}

RECURSIVE TrimStart(_)
TrimStart(s) ==
    IF s # <<>> /\ Head(s) = " " THEN TrimStart(Tail(s)) ELSE s

RECURSIVE TrimEnd(_)
TrimEnd(s) ==
    IF s # <<>> /\ s[Len(s)] = " " THEN TrimEnd(SubSeq(s, 1, Len(s) - 1)) ELSE s

(* The name tested as it is.                                               *)
Trim_None(s) == s

(* s.trim()                                                                *)
Trim(s) == TrimEnd(TrimStart(s))

RemoveAt(seq, i) == SubSeq(seq, 1, i - 1) \o SubSeq(seq, i + 1, Len(seq))

Min(a, b) == IF a < b THEN a ELSE b
Max(a, b) == IF a > b THEN a ELSE b

---------------------------------------------------------------------------
(* importDiet, exportDiet, totals.                                         *)

(* A callback that tests the name alone.                                   *)
IsValidItem_NameOnly(item) == TypeOf(Get(item, "name")) = "string"

(* The callback of importedItems.every on one item.                        *)
IsValidItem(item) ==
    /\ TypeOf(Get(item, "name")) = "string"
    /\ TypeOf(Get(item, "calories")) = "number"
    /\ TypeOf(Get(item, "protein")) = "number"
    /\ TypeOf(Get(item, "carbs")) = "number"
    /\ TypeOf(Get(item, "fat")) = "number"
    /\ TypeOf(Get(item, "weight")) = "number"

(* importedItems.every(...) from item i on: every stops at the first item  *)
(* whose callback returns false or throws.                                 *)
RECURSIVE EveryItem(_, _)
EveryItem(items, i) ==
    IF i > Len(items) THEN "valid"
    ELSE IF Throws(items[i]) THEN "throws"
    ELSE IF ~IsValidItem(items[i]) THEN "invalid"
    ELSE EveryItem(items, i + 1)

ImportFailedMsg == "Failed to import diet plan. Please check the file format."
InvalidFormatMsg == "Invalid diet plan format"
EnterNameMsg == "Please enter a food name"
FetchFailedMsg == "Failed to fetch nutrition information. Please try again."

(* The body of reader.onload on the file's content: which branch it takes  *)
(* ("set", "invalid", "catch"), and the items it would install.  A value   *)
(* that is not an array has no every method, and the call throws.          *)
ReaderOnload(content) ==
    LET r == JSONparse(content)
        every == IF r.ok /\ r.v.kind = "arr" THEN EveryItem(r.v.kids, 1) ELSE "throws"
    IN [branch |-> CASE every = "valid" -> "set"
                     [] every = "invalid" -> "invalid"
                     [] OTHER -> "catch",
        items |-> IF r.ok /\ r.v.kind = "arr" THEN r.v.kids ELSE <<>>]

(* JSON.stringify(foodItems, null, 2)                                      *)
DietData(items) == JSONstringify(Arr(items))

(* a + b on two values read from the accumulator and an item.  A sum with  *)
(* an operand that is not a number is no number of the ledger: NaN here.   *)
Plus(a, b) ==
    IF a.kind = "num" /\ b.kind = "num" THEN Num(a.n + b.n)
    ELSE IF {a.kind, b.kind} \subseteq {"num", "inf"} THEN Infinity
    ELSE NaN

(* +x.toFixed(1): the nearest tenth, the larger one on a tie.              *)
ToFixed1(x) ==
    IF x.kind # "num" THEN x
    ELSE IF x.n >= 0 THEN Num(((x.n + 5) \div 10) * 10)
    ELSE Num(-((((-x.n) + 5) \div 10) * 10))

ZeroTotals == [calories |-> Num(0), protein |-> Num(0), carbs |-> Num(0),
               fat |-> Num(0), weight |-> Num(0)]

(* The reducer of totals on one item.                                      *)
TotalsStep(acc, item) ==
    [calories |-> Plus(acc.calories, Get(item, "calories")),
     protein |-> ToFixed1(Plus(acc.protein, Get(item, "protein"))),
     carbs |-> ToFixed1(Plus(acc.carbs, Get(item, "carbs"))),
     fat |-> ToFixed1(Plus(acc.fat, Get(item, "fat"))),
     weight |-> ToFixed1(Plus(acc.weight, Get(item, "weight")))]

RECURSIVE Reduce(_, _, _)
Reduce(items, i, acc) ==
    IF i > Len(items) THEN acc ELSE Reduce(items, i + 1, TotalsStep(acc, items[i]))

(* foodItems.reduce(..., {calories: 0, protein: 0, carbs: 0, fat: 0, weight: 0}) *)
totals(items) == Reduce(items, 1, ZeroTotals)

(* foodItems.length > 0 && ...: the macro chart and its percentages are    *)
(* rendered.                                                               *)
ChartShown(items) == Len(items) > 0

(* The divisor of (totals.protein * 4 / totals.calories) * 100 and of the  *)
(* two percentages after it.                                               *)
PercentDenominator(items) == totals(items).calories

---------------------------------------------------------------------------
(* The state machine.                                                      *)

NoFile == <<Tok("none", 0, "")>>

(* The record of a step: the handler and the branch it took; for a         *)
(* suggestion response or a selection the query or name it is about (q);   *)
(* for an add, a nutrition response or an import the ledger before it      *)
(* (pre); for a nutrition response the ledger when handleAddFood was       *)
(* called (called), whether a text arrived that JSON.parse accepts (wf),   *)
(* the value parsed (v) and whether an import replaced the ledger during   *)
(* the lookup (imp); for an import its text and whether that is the        *)
(* exported file (fromFile).                                               *)
Step(op, branch) ==
    [op |-> op, branch |-> branch, q |-> <<>>, pre |-> <<>>, called |-> <<>>,
     v |-> Undefined, imp |-> FALSE, wf |-> FALSE, text |-> <<>>,
     fromFile |-> FALSE]

(* The timer of the first render's effect is pending.                      *)
Init ==
    /\ foodName = <<>>
    /\ foodItems = <<>>
    /\ isLoading = FALSE
    /\ error = ""
    /\ suggestions = <<>>
    /\ showSuggestions = FALSE
    /\ timers = {[q |-> <<>>, remaining |-> DebounceDelay]}
    /\ sugFlights = <<>>
    /\ nutriFlights = <<>>
    /\ file = NoFile
    /\ sinceChange = 0
    /\ issued = <<>>
    /\ burst = 0
    /\ exported = <<>>
    /\ last = Step("init", "")

(* The effect without its cleanup: the previous timer stays pending.       *)
DebounceTimers_NoCleanup(new) ==
    IF new = foodName THEN timers
    ELSE timers \cup {[q |-> new, remaining |-> DebounceDelay]}

(* useEffect(..., [foodName]) when a render sees the query text new: the   *)
(* cleanup clears the timer of the previous render, and a new one is set.  *)
DebounceTimers(new) ==
    IF new = foodName THEN timers
    ELSE {[q |-> new, remaining |-> DebounceDelay]}

(* setFoodName(new), with the effect of the render that follows.           *)
SetFoodName(new) ==
    /\ foodName' = new
    /\ timers' = DebounceTimers(new)
    /\ sinceChange' = IF new = foodName THEN sinceChange ELSE 0
    /\ issued' = IF new = foodName THEN issued ELSE <<>>
    /\ burst' = IF new = foodName THEN burst
                ELSE IF sinceChange < DebounceDelay THEN Min(2, burst + 1)
                ELSE 1

(* onChange of the text input.                                             *)
SetQuery(q) ==
    /\ q # foodName
    /\ SetFoodName(q)
    /\ last' = Step("setQuery", "")
    /\ UNCHANGED <<foodItems, isLoading, error, suggestions, showSuggestions,
                   sugFlights, nutriFlights, file, exported>>

(* onFocus of the text input.                                              *)
Focus ==
    /\ showSuggestions' = TRUE
    /\ last' = Step("focus", "")
    /\ UNCHANGED <<foodName, foodItems, isLoading, error, suggestions, timers,
                   sugFlights, nutriFlights, file, sinceChange, issued, burst, exported>>

(* Time passes, no timer being due.                                        *)
Tick ==
    /\ timers # {}
    /\ \A t \in timers : t.remaining > 0
    /\ timers' = {[q |-> t.q, remaining |-> Max(0, t.remaining - TickQuantum)] : t \in timers}
    /\ sinceChange' = Min(DebounceDelay, sinceChange + TickQuantum)
    /\ last' = Step("tick", "")
    /\ UNCHANGED <<foodName, foodItems, isLoading, error, suggestions,
                   showSuggestions, sugFlights, nutriFlights, file, issued, burst, exported>>

(* fetchSuggestions(query) up to its await: "clear" for a blank query,     *)
(* "fetch" otherwise.                                                      *)
FetchSuggestionsStart(query) ==
    IF Trim(query) = <<>> THEN "clear" ELSE "fetch"

(* The callback of the debounce timer t.                                   *)
TimerFires(t) ==
    /\ t \in timers
    /\ t.remaining = 0
    /\ timers' = timers \ {t}
    /\ IF t.q # <<>>
       THEN IF FetchSuggestionsStart(t.q) = "clear"
            THEN /\ suggestions' = <<>>
                 /\ last' = Step("timer", "clear")
                 /\ UNCHANGED <<showSuggestions, sugFlights, issued>>
            ELSE /\ Len(sugFlights) < MaxSugFlights
                 /\ sugFlights' = Append(sugFlights, t.q)
                 /\ issued' = Append(issued, [q |-> t.q, at |-> sinceChange])
                 /\ last' = Step("timer", "fetch")
                 /\ UNCHANGED <<suggestions, showSuggestions>>
       ELSE /\ suggestions' = <<>>
            /\ showSuggestions' = FALSE
            /\ last' = Step("timer", "empty")
            /\ UNCHANGED <<sugFlights, issued>>
    /\ UNCHANGED <<foodName, foodItems, isLoading, error, nutriFlights, file,
                   sinceChange, burst, exported>>

(* fetchSuggestions after its await, for the lookup sugFlights[i]: the     *)
(* response carries the names, or the try block throws (ok = FALSE).       *)
(* The catch block of fetchSuggestions leaving the list as it is.          *)
SuggestionsOnCatch_Stale == suggestions

(* The list set by the catch block of fetchSuggestions.                    *)
SuggestionsOnCatch == <<>>

SuggestionsArrive(i, ok, names) ==
    /\ i \in 1..Len(sugFlights)
    /\ sugFlights' = RemoveAt(sugFlights, i)
    /\ IF ok
       THEN /\ suggestions' = names
            /\ showSuggestions' = TRUE
            /\ last' = [Step("suggest", "set") EXCEPT !.q = sugFlights[i]]
       ELSE /\ suggestions' = SuggestionsOnCatch
            /\ last' = [Step("suggest", "catch") EXCEPT !.q = sugFlights[i]]
            /\ UNCHANGED showSuggestions
    /\ UNCHANGED <<foodName, foodItems, isLoading, error, timers, nutriFlights,
                   file, sinceChange, issued, burst, exported>>

(* The Add button without its disabled attribute.                          *)
AddEnabled_NoGuard == TRUE

(* The Add button can be clicked: disabled={isLoading}.                    *)
AddEnabled == ~isLoading

(* handleAddFood up to the await of fetchNutritionInfo.  The lookup keeps  *)
(* the foodItems of the render whose handler was called.                   *)
HandleAddFood ==
    /\ AddEnabled
    /\ IF Trim(foodName) = <<>>
       THEN /\ error' = EnterNameMsg
            /\ last' = [Step("add", "blank") EXCEPT !.pre = foodItems]
            /\ UNCHANGED <<isLoading, nutriFlights>>
       ELSE /\ Len(foodItems) < MaxLedger
            /\ isLoading' = TRUE
            /\ error' = ""
            /\ nutriFlights' = Append(nutriFlights,
                   [name |-> foodName, items |-> foodItems, imp |-> FALSE])
            /\ last' = [Step("add", "fetch") EXCEPT !.pre = foodItems]
    /\ UNCHANGED <<foodName, foodItems, suggestions, showSuggestions, timers,
                   sugFlights, file, sinceChange, issued, burst, exported>>

(* The new entry put first.                                                *)
AddedItems_Prepend(f, v) == <<v>> \o f.items

(* The ledger handleAddFood sets for the lookup f that returned v.         *)
AddedItems(f, v) == Append(f.items, v)

(* A catch block that does not throw the error again.                     *)
FetchNutritionEnd_Swallowed(ok, r) == "return"

(* How fetchNutritionInfo ends: it returns the parsed value, or its catch  *)
(* block throws the error again.                                           *)
FetchNutritionEnd(ok, r) == IF ok /\ r.ok THEN "return" ELSE "throw"

(* setIsLoading(false) as the last statement of the try block instead of  *)
(* a finally block: a lookup that throws leaves isLoading set.             *)
FinallyLoading_TryOnly(end) == end = "throw"

(* isLoading after the finally block of fetchNutritionInfo, which runs     *)
(* however the function ends.                                              *)
FinallyLoading(end) == FALSE

(* fetchNutritionInfo and handleAddFood after the await, for the lookup    *)
(* nutriFlights[i]: the fetch fails (ok = FALSE) or the response carries   *)
(* the text.                                                               *)
NutritionArrives(i, ok, text) ==
    /\ i \in 1..Len(nutriFlights)
    /\ nutriFlights' = RemoveAt(nutriFlights, i)
    /\ \E f \in {nutriFlights[i]}, r \in {JSONparse(text)} :
          /\ isLoading' = FinallyLoading(FetchNutritionEnd(ok, r))
          /\ IF FetchNutritionEnd(ok, r) = "return"
             THEN /\ foodItems' = AddedItems(f, r.v)
                  /\ SetFoodName(<<>>)
                  /\ suggestions' = <<>>
                  /\ showSuggestions' = FALSE
                  /\ UNCHANGED error
             ELSE /\ error' = FetchFailedMsg
                  /\ UNCHANGED <<foodName, foodItems, suggestions, showSuggestions,
                                 timers, sinceChange, issued, burst>>
          /\ last' = [Step("nutrition", FetchNutritionEnd(ok, r)) EXCEPT
                        !.pre = foodItems, !.called = f.items, !.v = r.v,
                        !.imp = f.imp, !.wf = (ok /\ r.ok)]
    /\ UNCHANGED <<sugFlights, file, exported>>

(* handleSelectSuggestion(suggestions[i]), from the dropdown.              *)
HandleSelectSuggestion(i) ==
    /\ showSuggestions
    /\ i \in 1..Len(suggestions)
    /\ SetFoodName(suggestions[i])
    /\ suggestions' = <<>>
    /\ showSuggestions' = FALSE
    /\ last' = [Step("select", "") EXCEPT !.q = suggestions[i]]
    /\ UNCHANGED <<foodItems, isLoading, error, sugFlights, nutriFlights, file,
                   exported>>

(* exportDiet: the text of the downloaded file.                            *)
ExportDiet ==
    /\ file' = DietData(foodItems)
    /\ exported' = foodItems
    /\ last' = Step("export", "")
    /\ UNCHANGED <<foodName, foodItems, isLoading, error, suggestions,
                   showSuggestions, timers, sugFlights, nutriFlights,
                   sinceChange, issued, burst>>

(* importDiet: reader.onload on a file of this content.                    *)
ImportDiet(content) ==
    \E o \in {ReaderOnload(content)} :
    /\ o.branch = "set" => Len(o.items) <= MaxLedger
    /\ CASE o.branch = "set" ->
              /\ foodItems' = o.items
              /\ nutriFlights' = [i \in 1..Len(nutriFlights) |->
                                    [nutriFlights[i] EXCEPT !.imp = TRUE]]
              /\ UNCHANGED error
         [] o.branch = "invalid" ->
              /\ error' = InvalidFormatMsg
              /\ UNCHANGED <<foodItems, nutriFlights>>
         [] OTHER ->
              /\ error' = ImportFailedMsg
              /\ UNCHANGED <<foodItems, nutriFlights>>
    /\ last' = [Step("import", o.branch) EXCEPT
                    !.pre = foodItems, !.text = content, !.fromFile = (content = file)]
    /\ UNCHANGED <<foodName, isLoading, suggestions, showSuggestions, timers,
                   sugFlights, file, sinceChange, issued, burst, exported>>

---------------------------------------------------------------------------
(* The specification of the form: typing, focus, time, the two lookups,    *)
(* selection and import.                                                   *)

NutritionTexts == {JSONstringify(Banana), GarbageText}
ImportTexts == {ArrayText(JSONstringify(Mint))}

Type == \E q \in Queries : SetQuery(q)
Debounce == \E t \in timers : TimerFires(t)
SuggestOk == \E i \in 1..Len(sugFlights), names \in SuggestPayloads :
                 SuggestionsArrive(i, TRUE, names)
SuggestFails == \E i \in 1..Len(sugFlights) : SuggestionsArrive(i, FALSE, <<>>)
NutritionOk == \E i \in 1..Len(nutriFlights), text \in NutritionTexts :
                   NutritionArrives(i, TRUE, text)
NutritionFails == \E i \in 1..Len(nutriFlights) : NutritionArrives(i, FALSE, <<>>)
Select == \E i \in 1..Len(suggestions) : HandleSelectSuggestion(i)
Import == \E content \in ImportTexts : ImportDiet(content)

Next ==
    \/ Type
    \/ Focus
    \/ Tick
    \/ Debounce
    \/ SuggestOk
    \/ SuggestFails
    \/ HandleAddFood
    \/ NutritionOk
    \/ NutritionFails
    \/ Select
    \/ Import

Spec == Init /\ [][Next]_vars

(* The add flow among typing, the debounce and the suggestion lookups.     *)
NextLive ==
    \/ Type
    \/ Focus
    \/ Tick
    \/ Debounce
    \/ SuggestOk
    \/ SuggestFails
    \/ HandleAddFood
    \/ NutritionOk
    \/ NutritionFails
    \/ Select

(* Every lookup of nutrition information is answered: the promise of       *)
(* fetch settles, with a response or with a failure.                       *)
SpecLive == Init /\ [][NextLive]_vars /\ WF_vars(NutritionOk \/ NutritionFails)

---------------------------------------------------------------------------
(* The specification of the ledger: add, export and import over a wider    *)
(* set of texts, within one debounce delay of typing the name.             *)

LedgerNutritionTexts == {JSONstringify(Mint), SaltText, EggText, GarbageText}
LedgerImportTexts ==
    { ArrayText(<<>>),
      ArrayText(JSONstringify(Mint)),
      ArrayText(SaltText),
      ArrayText(EggText),
      ArrayText(JSONstringify(Mint) \o <<P(",")>> \o EggText),
      ArrayText(<<P("null")>>),
      ArrayText(EggText \o <<P(","), P("null")>>),
      <<P("{"), P("}")>>,
      JSONstringify(Mint),
      <<P("null")>>,
      ArrayText(JSONstringify(Mint) \o <<P(",")>>),
      GarbageText,
      <<>> }

TypeName == SetQuery(Q_a)
LedgerNutritionOk == \E i \in 1..Len(nutriFlights), text \in LedgerNutritionTexts :
                         NutritionArrives(i, TRUE, text)
LedgerImport == \E content \in LedgerImportTexts : ImportDiet(content)
ImportExported == file # NoFile /\ ImportDiet(file)

NextLedger ==
    \/ TypeName
    \/ HandleAddFood
    \/ LedgerNutritionOk
    \/ NutritionFails
    \/ ExportDiet
    \/ LedgerImport
    \/ ImportExported

SpecLedger == Init /\ [][NextLedger]_vars

---------------------------------------------------------------------------
(* The specification of the values in the ledger: files whose entries are  *)
(* well typed, with an empty name, a negative number or no calories.       *)

RangeNutritionTexts == {JSONstringify(Mint)}
RangeImportTexts ==
    { ArrayText(JSONstringify(Void)),
      ArrayText(JSONstringify(Water)),
      ArrayText(JSONstringify(Mint)) }

RangeNutritionOk == \E i \in 1..Len(nutriFlights), text \in RangeNutritionTexts :
                        NutritionArrives(i, TRUE, text)
RangeImport == \E content \in RangeImportTexts : ImportDiet(content)

NextRange ==
    \/ TypeName
    \/ HandleAddFood
    \/ RangeNutritionOk
    \/ NutritionFails
    \/ ExportDiet
    \/ RangeImport
    \/ ImportExported

SpecRange == Init /\ [][NextRange]_vars

---------------------------------------------------------------------------
(* What the claims speak of, said without the handlers' own operators.     *)

(* A text that is empty or only whitespace.                                *)
Blank(text) == \A i \in 1..Len(text) : text[i] = " "

(* v has the member key, of one of these kinds.                            *)
HasMember(v, key, kinds) ==
    \E i \in 1..Len(v.kids) : v.kids[i].s = key /\ v.kids[i].kids[1].kind \in kinds

(* A structurally valid FoodEntry: the name a text, the other five fields  *)
(* numbers.                                                                *)
ValidEntry(v) ==
    /\ v.kind = "obj"
    /\ HasMember(v, "name", {"str"})
    /\ \A i \in 1..Len(Fields) : HasMember(v, Fields[i], {"num", "inf"})

ValidLedger(items) == \A i \in 1..Len(items) : ValidEntry(items[i])

(* A valid entry whose five numbers are finite.                            *)
FiniteEntry(v) ==
    /\ ValidEntry(v)
    /\ \A i \in 1..Len(Fields) : HasMember(v, Fields[i], {"num"})

RECURSIVE Sum(_, _, _)
(* The exact sum of a field over items[i..].                               *)
Sum(items, key, i) ==
    IF i > Len(items) THEN 0 ELSE Get(items[i], key).n + Sum(items, key, i + 1)

(* x rounded once to one decimal place.                                    *)
Rounded(x) == ((x + 5) \div 10) * 10

---------------------------------------------------------------------------
(* C1: a suggestion response that arrives for a query that is no longer    *)
(* the current query text changes neither the suggestion list nor its      *)
(* visibility.                                                             *)
C1_StaleResponseDiscarded ==
    [][(last'.op = "suggest" /\ last'.q # foodName)
          => (suggestions' = suggestions /\ showSuggestions' = showSuggestions)]_vars

(* C2: at most one nutrition lookup is outstanding, and one is outstanding *)
(* exactly while isLoading is true, so that no add starts a second one.    *)
C2_SingleFlight ==
    /\ Len(nutriFlights) <= 1
    /\ isLoading <=> (Len(nutriFlights) = 1)

(* A lookup is in flight while the form holds a name that could be added.  *)
C2_Witness == isLoading /\ Len(nutriFlights) = 1 /\ ~Blank(foodName)

(* C3: when the lookup of an add succeeds and no import happened in        *)
(* between, the ledger is the ledger of the call with the returned entry   *)
(* appended, the query text and the suggestion list are empty and          *)
(* isLoading is false; from an empty ledger the ledger holds that one      *)
(* entry and the total of calories is the entry's calories.                *)
C3_AddSucceeds ==
    (last.op = "nutrition" /\ last.wf /\ ~last.imp) =>
        /\ last.pre = last.called
        /\ foodItems = Append(last.called, last.v)
        /\ foodName = <<>>
        /\ suggestions = <<>>
        /\ ~isLoading
        /\ (last.called = <<>> /\ ValidEntry(last.v)) =>
               /\ foodItems = <<last.v>>
               /\ totals(foodItems).calories = Get(last.v, "calories")

(* A successful add onto a ledger that already held an entry.              *)
C3_Witness ==
    /\ last.op = "nutrition" /\ last.wf /\ ~last.imp
    /\ last.called # <<>>
    /\ last.v = Banana

(* C4: when the lookup of an add fails (the fetch fails, or parsing the    *)
(* payload throws), the step leaves the ledger as it was, which without    *)
(* an import in between is the ledger of the call; the error message is    *)
(* not empty, isLoading is false and no lookup is outstanding.             *)
C4_AddFails ==
    (last.op = "nutrition" /\ ~last.wf) =>
        /\ foodItems = last.pre
        /\ (~last.imp => foodItems = last.called)
        /\ totals(foodItems) = totals(last.pre)
        /\ error # ""
        /\ ~isLoading
        /\ nutriFlights = <<>>

(* A failed add on a ledger that holds an entry.                           *)
C4_Witness == last.op = "nutrition" /\ ~last.wf /\ foodItems # <<>>

(* C5: an add with a name that is empty or only whitespace issues no       *)
(* lookup, leaves isLoading false and the ledger unchanged, and sets an    *)
(* error message.                                                          *)
C5_BlankName ==
    (last.op = "add" /\ Blank(foodName)) =>
        /\ last.branch = "blank"
        /\ nutriFlights = <<>>
        /\ ~isLoading
        /\ foodItems = last.pre
        /\ error # ""

(* An add with a name of one space.                                        *)
C5_Witness == last.op = "add" /\ foodName = <<" ">>

(* The text is not well-formed JSON, or is an array with an entry that is  *)
(* no structurally valid FoodEntry.                                        *)
Rejectable(text) ==
    \E r \in {JSONparse(text)} :
        ~r.ok \/ (r.v.kind = "arr" /\ ~ValidLedger(r.v.kids))

(* C6: an import of a text that is not well-formed JSON, or has an entry   *)
(* with a missing or wrong-typed field, leaves the ledger as it was and    *)
(* sets an error message.                                                  *)
C6_ImportAllOrNothing ==
    (last.op = "import" /\ Rejectable(last.text)) =>
        /\ foodItems = last.pre
        /\ error # ""

(* A well-formed array with a wrong-typed entry, imported over a ledger    *)
(* that holds an entry.                                                    *)
C6_Witness ==
    /\ last.op = "import"
    /\ last.text = ArrayText(JSONstringify(Mint) \o <<P(",")>> \o EggText)
    /\ last.pre # <<>>

(* C7: an import of a text that is not well-formed takes the parse-error   *)
(* outcome, and an import of a well-formed text that is not an array of    *)
(* structurally valid entries takes the validation-error outcome.          *)
C7_FailureKinds ==
    last.op = "import" =>
        \E r \in {JSONparse(last.text)} :
            /\ ~r.ok => last.branch = "catch"
            /\ (r.ok /\ ~(r.v.kind = "arr" /\ ValidLedger(r.v.kids)))
                   => last.branch = "invalid"

(* C8: importing the text that export wrote for a ledger of structurally   *)
(* valid entries succeeds and yields that ledger.                          *)
C8_RoundTrip ==
    (last.op = "import" /\ last.fromFile /\ ValidLedger(exported)) =>
        /\ last.branch = "set"
        /\ foodItems = exported

(* C9: for a ledger of entries with finite numbers, totals is the exact    *)
(* sum of calories, and for each other field the exact sum rounded once to *)
(* one decimal place.                                                      *)
C9_TotalsExact ==
    (\A i \in 1..Len(foodItems) : FiniteEntry(foodItems[i])) =>
        totals(foodItems) =
            [calories |-> Num(Sum(foodItems, "calories", 1)),
             protein |-> Num(Rounded(Sum(foodItems, "protein", 1))),
             carbs |-> Num(Rounded(Sum(foodItems, "carbs", 1))),
             fat |-> Num(Rounded(Sum(foodItems, "fat", 1))),
             weight |-> Num(Rounded(Sum(foodItems, "weight", 1)))]

(* C10: since the query text last changed at most one suggestion lookup    *)
(* has been issued; it is for the current query text and was issued a full *)
(* debounce delay after that change, so none is issued for a query that a  *)
(* later change of the burst superseded; and one timer at most is pending. *)
C10_Debounce ==
    /\ Len(issued) <= 1
    /\ \A i \in 1..Len(issued) :
           issued[i].q = foodName /\ issued[i].at >= DebounceDelay
    /\ Cardinality(timers) <= 1

(* The lookup issued after a burst of two changes.                         *)
C10_Witness == last.op = "timer" /\ Len(issued) = 1 /\ burst = 2

(* C11: whenever the query text is empty the suggestion list is empty: it  *)
(* is cleared in the step that empties the text, not a debounce delay      *)
(* later, and stays empty until the text is next non-empty.                *)
C11_EmptyQueryClears == foodName = <<>> => suggestions = <<>>

(* C12: after a selection the query text is the selected name, the         *)
(* suggestion list is empty and no debounce timer is pending, so that no   *)
(* lookup follows from the selection.                                      *)
C12_SelectionIdle ==
    last.op = "select" =>
        /\ foodName = last.q
        /\ suggestions = <<>>
        /\ timers = {}

(* C13: every ledger entry has the six fields with the right types; a      *)
(* provider response that parses as JSON but is no structurally valid      *)
(* FoodEntry counts as a failed lookup: the error message is set and the   *)
(* ledger is left as it was.                                               *)
C13_LedgerWellTyped ==
    /\ ValidLedger(foodItems)
    /\ (last.op = "nutrition" /\ last.wf /\ ~ValidEntry(last.v)) =>
           (error # "" /\ foodItems = last.pre)

(* C14: a failed suggestion lookup is silent: it sets the suggestion list  *)
(* to empty and leaves the error message, isLoading, the query text and    *)
(* the ledger unchanged.                                                   *)
C14_SuggestFailureSilent ==
    [][(last'.op = "suggest" /\ last'.branch = "catch")
          => /\ suggestions' = <<>>
             /\ UNCHANGED <<error, isLoading, foodName, foodItems>>]_vars

(* A suggestion lookup has failed while an error message is shown, the     *)
(* ledger holds an entry and a name is typed.                              *)
C14_Witness ==
    /\ last.op = "suggest" /\ last.branch = "catch"
    /\ error # "" /\ foodItems # <<>> /\ foodName # <<>>

(* C15: the suggestion list holds at most 5 names, whatever number of      *)
(* names a successful suggestion response carries.                         *)
C15_AtMostFiveSuggestions == Len(suggestions) <= MaxSuggestions

(* C16: when an import succeeds while the lookup of an add is in flight    *)
(* and the lookup then succeeds, the ledger is the imported entries        *)
(* followed by the new entry.                                              *)
C16_NoLostUpdate ==
    (last.op = "nutrition" /\ last.wf /\ last.imp) =>
        foodItems = Append(last.pre, last.v)

(* The entry's name, where it is a text, is not empty, and each of its     *)
(* finite numbers is at least zero.                                        *)
InRange(v) ==
    \A i \in 1..Len(v.kids) :
        /\ (v.kids[i].s = "name" /\ v.kids[i].kids[1].kind = "str")
               => v.kids[i].kids[1].s # ""
        /\ v.kids[i].kids[1].kind = "num" => v.kids[i].kids[1].n >= 0

(* The text is a JSON array with an entry out of range.                    *)
OutOfRange(text) ==
    \E r \in {JSONparse(text)} :
        r.ok /\ r.v.kind = "arr" /\ \E i \in 1..Len(r.v.kids) : ~InRange(r.v.kids[i])

(* C17: every ledger entry has a non-empty name and non-negative numbers;  *)
(* an import with an entry that has an empty name or a negative number     *)
(* is rejected and leaves the ledger as it was.                            *)
C17_EntriesInRange ==
    /\ \A i \in 1..Len(foodItems) : InRange(foodItems[i])
    /\ (last.op = "import" /\ OutOfRange(last.text)) =>
           (last.branch # "set" /\ foodItems = last.pre)

(* C18: whenever the percentage breakdown is displayed, the total of       *)
(* calories it divides by is greater than zero, also for a ledger whose    *)
(* entries all have calories 0.                                            *)
C18_DenominatorPositive ==
    ChartShown(foodItems) =>
        \E d \in {PercentDenominator(foodItems)} :
            d.kind = "inf" \/ (d.kind = "num" /\ d.n > 0)

(* C19: when every lookup is answered, each state in which isLoading is    *)
(* true is followed by a state in which isLoading is false and a new add   *)
(* can be started.                                                         *)
C19_LoadingEnds == isLoading ~> (~isLoading /\ AddEnabled /\ nutriFlights = <<>>)

(* A lookup has failed and the Add button is enabled again.                *)
C19_Witness ==
    /\ last.op = "nutrition" /\ last.branch = "throw"
    /\ ~isLoading /\ AddEnabled

====
